---- MODULE Spec2Model ----
(***************************************************************************)
(* Model of the event subscription and fan-out engine of i3ipc-go          *)
(* (subscribe.go): the payloads registry, StartEventListener, Subscribe,   *)
(* the per-socket listen loop with addDetails, and the consumers reading   *)
(* the subscriber channels.                                                *)
(*                                                                         *)
(* Go ids are 0-based, TLA+ sequences 1-based: payloads[id + 1] is the     *)
(* name of event type id, eventSockets[id + 1] its socket.                 *)
(***************************************************************************)
EXTENDS Integers, Sequences, FiniteSets, TLC

\* ------------------------------------------------------------ constants

I3WorkspaceEvent == 0
I3OutputEvent == 1
I3ModeEvent == 2
I3WindowEvent == 3
I3BarConfigUpdateEvent == 4
I3BindingEvent == 5
eventmax == 6

BuiltinPayloads ==
    <<"workspace", "output", "mode", "window", "barconfig_update", "binding">>

\* --------------------------------------------------------------- bounds

\* AddEventType calls made by the application.
MaxAdds == 2
\* Channels created by successful Subscribe calls.
MaxSubs == 2
\* Results (frames and errors) socket.recv returns, over all sockets.
MaxFrames == 2
\* The same, where the results are drawn from every type and payload.
MaxDecoded == 1

Socks == 0 .. (eventmax - 1)
\* The sockets the transport delivers on and the external owner may close.
TrafficSocks == {I3WindowEvent}
\* The event types the application subscribes to in the steady state.
ListenIds == {I3ModeEvent, I3WindowEvent}
Chans == 1 .. MaxSubs
\* Application goroutines of the memory-access level specification.
Threads == {1, 2}
\* The name the k-th AddEventType call registers.
ExtNames == <<"ext1", "ext2", "ext3", "ext4">>
\* Arguments the application passes to Subscribe.
SubIds == (0 - 1) .. (eventmax + MaxAdds)
None == 0
\* What a slot outside the array of a slice holds: not a channel.
Wild == 0 - 1
Nil == "nil"
NoSuchEventType == "No such event type."

Range(f) == {f[i] : i \in DOMAIN f}

\* ------------------------------------------------------ payload decoding

(* A raw payload as encoding/json sees it: either not JSON at all          *)
(* (syntax = FALSE) or an object whose keys (already case-folded, as the   *)
(* decoder matches struct fields case-insensitively) carry values of a     *)
(* JSON kind.                                                              *)
JStr(v) == [kind |-> "string", val |-> v]
JNum(v) == [kind |-> "number", val |-> v]
JObj(v) == [kind |-> "object", val |-> v]
JBool(v) == [kind |-> "bool", val |-> v]
JNull == [kind |-> "null", val |-> "null"]

Garbage == [syntax |-> FALSE, obj |-> <<>>]
Json(o) == [syntax |-> TRUE, obj |-> o]

\* The Go zero value of a struct field of the given JSON kind.
ZeroOf(kind) ==
    CASE kind = "string" -> ""
      [] kind = "bool" -> "false"
      [] OTHER -> "zero"

\* The fields of the detail structs: key |-> JSON kind.
BaseEvent == [change |-> "string"]
WorkspaceEvent == [change |-> "string", current |-> "object", old |-> "object"]
ModeEvent == [change |-> "string", pangomarkup |-> "bool"]
WindowEvent == [change |-> "string", container |-> "object"]
BindingEvent == [change |-> "string", binding |-> "object"]

\* Mutant: the switch has no case for binding events.
DetailOf_noBinding(type) ==
    CASE type = I3WorkspaceEvent -> [variant |-> "WorkspaceEvent", fields |-> WorkspaceEvent]
      [] type = I3ModeEvent -> [variant |-> "ModeEvent", fields |-> ModeEvent]
      [] type = I3WindowEvent -> [variant |-> "WindowEvent", fields |-> WindowEvent]
      [] OTHER -> [variant |-> "BaseEvent", fields |-> BaseEvent]

\* The struct the switch of addDetails selects for an event type.
DetailOf(type) ==
    CASE type = I3WorkspaceEvent -> [variant |-> "WorkspaceEvent", fields |-> WorkspaceEvent]
      [] type = I3ModeEvent -> [variant |-> "ModeEvent", fields |-> ModeEvent]
      [] type = I3WindowEvent -> [variant |-> "WindowEvent", fields |-> WindowEvent]
      [] type = I3BindingEvent -> [variant |-> "BindingEvent", fields |-> BindingEvent]
      [] OTHER -> [variant |-> "BaseEvent", fields |-> BaseEvent]

\* Key k of the payload carries a value (null leaves a field alone).
Present(raw, k) == k \in DOMAIN raw.obj /\ raw.obj[k].kind # "null"

\* Mutant: a key the struct has no field for is an error.
UnmarshalErr_strict(raw, fields) ==
    IF ~raw.syntax THEN "syntax error"
    ELSE IF \E k \in DOMAIN raw.obj :
              \/ k \notin DOMAIN fields
              \/ Present(raw, k) /\ raw.obj[k].kind # fields[k]
         THEN "type error"
         ELSE Nil

(* The error of json.Unmarshal(raw, &d) for a struct with the given        *)
(* fields: raw is not JSON, or a key of the struct carries a value of      *)
(* another kind. Unknown keys are ignored.                                 *)
UnmarshalErr(raw, fields) ==
    IF ~raw.syntax THEN "syntax error"
    ELSE IF \E k \in DOMAIN fields :
              Present(raw, k) /\ raw.obj[k].kind # fields[k]
         THEN "type error"
         ELSE Nil

\* The struct it leaves in d: missing keys leave the zero value.
UnmarshalInto(raw, fields) ==
    [k \in DOMAIN fields |->
       IF UnmarshalErr(raw, fields) = Nil /\ Present(raw, k)
       THEN raw.obj[k].val
       ELSE ZeroOf(fields[k])]

(* addDetails(&event, raw) with event.Type = type: the decoded Event, or   *)
(* the error handed to log.Fatal.                                          *)
addDetails(type, raw) ==
    LET sel == DetailOf(type)
        d == UnmarshalInto(raw, sel.fields)
    IN  [err |-> UnmarshalErr(raw, sel.fields),
         event |-> [Type |-> type,
                    Details |-> [variant |-> sel.variant, d |-> d],
                    Change |-> d["change"]]]

NoEvent == addDetails(0 - 1, Garbage).event

\* ------------------------------------------------------------ transport

Frame(isEvent, type, payload) ==
    [IsEvent |-> isEvent, Type |-> type, Payload |-> payload]

(* What socket.recv may return on socket s: an error, or one of a few      *)
(* representative messages. The message type is whatever the frame         *)
(* declares: a reply, an event of the socket's own type, an event of a     *)
(* type outside the switch of addDetails, and an event whose change is     *)
(* not a string.                                                           *)
Messages(s) ==
    { Frame(FALSE, s, Json([success |-> JBool("true")])),
      Frame(TRUE, s, Json([change |-> JStr("focus"), container |-> JObj("id1")])),
      Frame(TRUE, eventmax, Json([change |-> JStr("init"), container |-> JNum("7")])),
      Frame(TRUE, I3OutputEvent, Json([change |-> JNum("7")])) }

RecvResults(s) ==
    {[err |-> TRUE, msg |-> Frame(FALSE, s, Garbage)]}
        \cup {[err |-> FALSE, msg |-> m] : m \in Messages(s)}

\* The types a frame may declare: the built-in ones and one beyond them.
FrameTypes == 0 .. eventmax

(* Payloads of every shape the decoder tells apart: not JSON, an object    *)
(* without change, change alone (a string, a number, null), and the        *)
(* payload of each specific event, for window also with a container of a   *)
(* wrong kind.                                                             *)
Payloads ==
    { Garbage,
      Json([first |-> JBool("true")]),
      Json([change |-> JStr("focus")]),
      Json([change |-> JNum("7")]),
      Json([change |-> JNull]),
      Json([change |-> JStr("focus"), container |-> JObj("node")]),
      Json([change |-> JStr("focus"), container |-> JNum("7")]),
      Json([change |-> JStr("init"), current |-> JObj("node"), old |-> JNull]),
      Json([change |-> JStr("default"), pangomarkup |-> JBool("true")]),
      Json([change |-> JStr("run"), binding |-> JObj("binding")]) }

\* What socket.recv may return when the server sends anything at all.
AnyResults(s) ==
    {[err |-> TRUE, msg |-> Frame(FALSE, s, Garbage)],
     [err |-> FALSE, msg |-> Frame(FALSE, s, Json([success |-> JBool("true")]))]}
        \cup {[err |-> FALSE, msg |-> Frame(TRUE, ty, p)] :
                  ty \in FrameTypes, p \in Payloads}

\* ---------------------------------------------------------------- state

VARIABLES
    payloads,       \* the registry slice: names by event type
    eventSockets,   \* the global slice of sockets, by event type
    conn,           \* per socket: "none", "connected" or "subscribed"
    subName,        \* per socket: the name its subscribe request carried
    open,           \* per socket: socket.open
    subscribers,    \* per socket: socket.subscribers, a sequence of channels
    startPc,        \* where StartEventListener stands
    ev,             \* its loop variable
    lpc,            \* per socket: where its listen goroutine stands
    cur,            \* per socket: the event being broadcast, the ranged
                    \* slice and the position in it
    ready,          \* per channel: a consumer is blocked receiving from it
    nextChan,       \* channels made so far
    exited,         \* "" while the process runs, else why it ended
    tpc,            \* per application goroutine: the call it is inside
    \* history, read by the properties only
    adds,           \* the AddEventType calls: name, returned id, size before
    replies,        \* per socket: what its subscribe request was answered
    ret,            \* what the last Subscribe call returned: error, channel
    returned,       \* the (channel, socket) pairs Subscribe has returned
    chanInfo,       \* per channel: its socket and the frames that socket
                    \* had received when the channel was attached
    rx,             \* per socket: everything socket.recv returned
    attempts,       \* the selects executed: socket, frame number, channel,
                    \* whether the send was taken
    received        \* per channel: what its consumer got, in order

vars == <<payloads, eventSockets, conn, subName, open, subscribers, startPc,
          ev, lpc, cur, ready, nextChan, exited, tpc, adds, replies, ret,
          returned, chanInfo, rx, attempts, received>>

startVars == <<conn, subName, open, eventSockets, startPc, ev, replies>>
listenVars == <<lpc, cur, rx, attempts, received, ready>>
subVars == <<subscribers, nextChan, ret, returned, chanInfo>>

Idle == [event |-> NoEvent, snap |-> <<>>, i |-> 0, n |-> 0]
IdleThread == [pc |-> "idle", sock |-> 0, ch |-> None, val |-> <<>>, name |-> ""]

Init ==
    /\ payloads = BuiltinPayloads
    /\ eventSockets = <<>>
    /\ conn = [s \in Socks |-> "none"]
    /\ subName = [s \in Socks |-> ""]
    /\ open = [s \in Socks |-> FALSE]
    /\ subscribers = [s \in Socks |-> <<>>]
    /\ startPc = "idle"
    /\ ev = 0
    /\ lpc = [s \in Socks |-> "idle"]
    /\ cur = [s \in Socks |-> Idle]
    /\ ready = [q \in Chans |-> FALSE]
    /\ nextChan = 0
    /\ exited = ""
    /\ tpc = [t \in Threads |-> IdleThread]
    /\ adds = <<>>
    /\ replies = [s \in Socks |-> ""]
    /\ ret = [err |-> Nil, subs |-> None]
    /\ returned = {}
    /\ chanInfo = [q \in Chans |-> [sock |-> 0, at |-> 0]]
    /\ rx = [s \in Socks |-> <<>>]
    /\ attempts = {}
    /\ received = [q \in Chans |-> <<>>]

Running == exited = ""

\* The frames and errors received so far, over all sockets.
RECURSIVE SumLen(_, _)
SumLen(f, S) ==
    IF S = {} THEN 0
    ELSE LET s == CHOOSE x \in S : TRUE IN Len(f[s]) + SumLen(f, S \ {s})

\* ------------------------------------------------------------- registry

\* payloads = append(payloads, name)
AppendPayload(p, name) == Append(p, name)

\* Mutant: the length after the append is returned as the id.
NewEventType_len(p) == Len(p)

\* return EventType(len(payloads) - 1)
NewEventType(p) == Len(p) - 1

AddEventType(name) ==
    /\ Running
    /\ Len(adds) < MaxAdds
    /\ payloads' = AppendPayload(payloads, name)
    /\ adds' = Append(adds, [name |-> name,
                             id |-> NewEventType(payloads'),
                             before |-> Len(payloads)])
    /\ UNCHANGED <<startVars, listenVars, subVars, exited, tpc>>

\* -------------------------------------------------------------- startup

\* Mutant: only a registry that is too short is refused.
PayloadsMismatch_short == Len(payloads) < eventmax

\* len(payloads) != int(eventmax)
PayloadsMismatch == Len(payloads) # eventmax

\* The check that opens StartEventListener; log.Fatalf ends the process.
StartCheck ==
    /\ Running
    /\ startPc = "idle"
    /\ IF PayloadsMismatch
       THEN /\ exited' = "fatal: payloads"
            /\ UNCHANGED <<startPc, ev>>
       ELSE /\ startPc' = "connect"
            /\ ev' = 0
            /\ UNCHANGED exited
    /\ UNCHANGED <<payloads, adds, conn, subName, open, eventSockets, replies,
                   listenVars, subVars, tpc>>

\* Mutant: the listener is launched without the handshake.
PcAfterConnect_skipHandshake == "launch"

\* After GetIPCSocket comes err = sock.subscribe(ev).
PcAfterConnect == "subscribe"

\* sock, err := GetIPCSocket(), which may fail.
StartGetSocket ==
    /\ Running
    /\ startPc = "connect"
    /\ \E ok \in BOOLEAN :
         IF ok
         THEN /\ conn' = [conn EXCEPT ![ev] = "connected"]
              /\ open' = [open EXCEPT ![ev] = TRUE]
              /\ startPc' = PcAfterConnect
              /\ UNCHANGED exited
         ELSE /\ exited' = "fatal: socket"
              /\ UNCHANGED <<conn, open, startPc>>
    /\ UNCHANGED <<payloads, adds, subName, eventSockets, ev, replies,
                   listenVars, subVars, tpc>>

(* What socket.Raw(I3Subscribe, ...) may come back with: a reply that      *)
(* reports success, one that reports success = false, one that is not      *)
(* JSON, or an error of the request itself.                                *)
HandshakeReplies == {"success", "rejected", "not json", "raw error"}

\* Mutant: the Success field of the reply is not looked at.
HandshakeOk_lenient(reply) == reply \in {"success", "rejected"}

\* subscribe returns a nil error only for a reply with success = true.
HandshakeOk(reply) == reply = "success"

(* err = sock.subscribe(ev): the request carries payloads[ev]; any error   *)
(* is fatal.                                                               *)
StartSubscribe ==
    /\ Running
    /\ startPc = "subscribe"
    /\ subName' = [subName EXCEPT ![ev] = payloads[ev + 1]]
    /\ \E reply \in HandshakeReplies :
         /\ replies' = [replies EXCEPT ![ev] = reply]
         /\ IF HandshakeOk(reply)
            THEN /\ conn' = [conn EXCEPT ![ev] = "subscribed"]
                 /\ startPc' = "launch"
                 /\ UNCHANGED exited
            ELSE /\ exited' = "fatal: subscribe"
                 /\ UNCHANGED <<conn, startPc>>
    /\ UNCHANGED <<payloads, adds, open, eventSockets, ev, listenVars,
                   subVars, tpc>>

\* go sock.listen()
StartLaunch ==
    /\ Running
    /\ startPc = "launch"
    /\ lpc' = [lpc EXCEPT ![ev] = "top"]
    /\ startPc' = "store"
    /\ UNCHANGED <<payloads, adds, conn, subName, open, eventSockets, ev,
                   replies, cur, rx, attempts, received, ready, subVars,
                   exited, tpc>>

\* eventSockets = append(eventSockets, sock); ev++
StartStore ==
    /\ Running
    /\ startPc = "store"
    /\ eventSockets' = Append(eventSockets, ev)
    /\ ev' = ev + 1
    /\ startPc' = IF ev + 1 < eventmax THEN "connect" ELSE "done"
    /\ UNCHANGED <<payloads, adds, conn, subName, open, replies, listenVars,
                   subVars, exited, tpc>>

\* ------------------------------------------------------------ Subscribe

\* Mutant: the upper bound of the check is off by one.
InvalidEventType_off(eventType) == eventType > eventmax \/ eventType < 0

\* eventType >= eventmax || eventType < 0
InvalidEventType(eventType) == eventType >= eventmax \/ eventType < 0

\* Mutant: the new channel is put in front of the others.
AppendSubscriber_front(subs, q) == <<q>> \o subs

\* append(eventSockets[eventType].subscribers, subs)
AppendSubscriber(subs, q) == Append(subs, q)

(* Subscribe(id) as one step. Indexing eventSockets beyond its length      *)
(* panics, which ends the process; make(chan Event) is unbuffered.         *)
Subscribe(id) ==
    /\ Running
    /\ IF InvalidEventType(id)
       THEN /\ ret' = [err |-> NoSuchEventType, subs |-> None]
            /\ UNCHANGED <<subscribers, nextChan, returned, chanInfo, exited>>
       ELSE IF id + 1 \notin DOMAIN eventSockets
       THEN /\ exited' = "panic: index out of range"
            /\ UNCHANGED subVars
       ELSE LET s == eventSockets[id + 1]
                q == nextChan + 1
            IN  /\ nextChan < MaxSubs
                /\ nextChan' = q
                /\ subscribers' = [subscribers EXCEPT
                                     ![s] = AppendSubscriber(@, q)]
                /\ ret' = [err |-> Nil, subs |-> q]
                /\ returned' = returned \cup {<<q, s>>}
                /\ chanInfo' = [chanInfo EXCEPT
                                  ![q] = [sock |-> s, at |-> Len(rx[s])]]
                /\ UNCHANGED exited
    /\ UNCHANGED <<payloads, adds, startVars, listenVars, tpc>>

\* --------------------------------------------------------------- listen

\* Mutant: replies are not filtered out.
IsDropped_never(msg) == FALSE

\* if !msg.IsEvent { continue }
IsDropped(msg) == ~msg.IsEvent

\* The capacity append gives a slice grown one element at a time from nil.
RECURSIVE CapOf(_)
CapOf(n) == IF n <= 1 THEN n ELSE 2 * CapOf((n + 1) \div 2)

(* What a read of socket.subscribers may return. With no store of the      *)
(* slice in progress it is the slice. A read that runs while a goroutine   *)
(* stores a new slice header is unsynchronised: it may see the old header, *)
(* the new one, the new array with the old length, or the old array with   *)
(* the new length, whose last slot lies outside the old array when the     *)
(* append had to grow it.                                                  *)
ObservedSlices(s) ==
    LET old == subscribers[s]
        storing == {t \in Threads : tpc[t].pc = "sub store" /\ tpc[t].sock = s}
        min(a, b) == IF a < b THEN a ELSE b
    IN  {old}
          \cup {tpc[t].val : t \in storing}
          \cup {SubSeq(tpc[t].val, 1, min(Len(old), Len(tpc[t].val))) : t \in storing}
          \cup {Append(old, Wild) : t \in {u \in storing :
                    /\ Len(tpc[u].val) > Len(old)
                    /\ CapOf(Len(tpc[u].val)) # CapOf(Len(old))}}

\* Mutant: the loop starts at the second subscriber.
RangedSlices_skipFirst(s) ==
    {IF x = <<>> THEN x ELSE Tail(x) : x \in ObservedSlices(s)}

\* range socket.subscribers: the slice is read once, when the loop starts.
RangedSlices(s) == ObservedSlices(s)

\* Mutant: a plain send, which waits for a receiver.
SelectProceeds_blocking(q) == ready[q]

\* select { case subscriber <- event: ... default: }: never waits.
SelectProceeds(q) == TRUE

\* The send case is taken exactly when a receiver is waiting on the
\* unbuffered channel.
SendTaken(q) == ready[q]

\* Mutant: the loop ends at the first subscriber that takes the event.
AfterSelect_break(s, taken) ==
    IF taken THEN Len(cur[s].snap) + 1 ELSE cur[s].i + 1

\* The range loop moves on to the next subscriber whatever the select did.
AfterSelect(s, taken) == cur[s].i + 1

\* Mutant: the test of the flag is inverted.
BreaksLoop_inverted(isOpen) == isOpen

\* if !socket.open { break }
BreaksLoop(isOpen) == ~isOpen

\* for { if !socket.open { break } ...
ListenTop(s) ==
    /\ Running
    /\ lpc[s] = "top"
    /\ lpc' = [lpc EXCEPT ![s] = IF BreaksLoop(open[s]) THEN "exit" ELSE "recv"]
    /\ UNCHANGED <<payloads, adds, startVars, cur, rx, attempts, received,
                   ready, subVars, exited, tpc>>

\* Mutant: a receive error leaves the loop.
AfterRecvError_break == "exit"

\* if err != nil { continue }
AfterRecvError == "top"

\* Mutant: the event takes the type of the socket it arrived on.
EventTypeOf_socket(s, msg) == s

\* event.Type = EventType(msg.Type)
EventTypeOf(s, msg) == msg.Type

\* Mutant: the error of the decoder is dropped.
DecodeFails_never(dec) == FALSE

\* if err != nil { log.Fatal(err) }
DecodeFails(dec) == dec.err # Nil

(* msg, err := socket.recv() returns one of the given results, and the     *)
(* loop body runs up to the range statement: errors and non-events go      *)
(* back to the loop head, a payload addDetails cannot decode ends the      *)
(* process. At most max results are received over all sockets.             *)
ListenRecvFrom(s, results, max) ==
    /\ Running
    /\ lpc[s] = "recv"
    /\ SumLen(rx, Socks) < max
    /\ \E r \in results, snap \in RangedSlices(s) :
         LET dec == addDetails(EventTypeOf(s, r.msg), r.msg.Payload)
         IN  /\ rx' = [rx EXCEPT ![s] = Append(@, r)]
             /\ IF r.err
                THEN /\ lpc' = [lpc EXCEPT ![s] = AfterRecvError]
                     /\ UNCHANGED <<cur, exited>>
                ELSE IF IsDropped(r.msg)
                THEN /\ lpc' = [lpc EXCEPT ![s] = "top"]
                     /\ UNCHANGED <<cur, exited>>
                ELSE IF DecodeFails(dec)
                THEN /\ exited' = "fatal: decode"
                     /\ UNCHANGED <<lpc, cur>>
                ELSE IF snap = <<>>
                THEN /\ lpc' = [lpc EXCEPT ![s] = "top"]
                     /\ UNCHANGED <<cur, exited>>
                ELSE /\ lpc' = [lpc EXCEPT ![s] = "send"]
                     /\ cur' = [cur EXCEPT ![s] = [event |-> dec.event,
                                                   snap |-> snap,
                                                   i |-> 1,
                                                   n |-> Len(rx[s]) + 1]]
                     /\ UNCHANGED exited
    /\ UNCHANGED <<payloads, adds, startVars, attempts, received, ready,
                   subVars, tpc>>

\* The listener of a socket with traffic receives a representative result.
ListenRecv(s) ==
    /\ s \in TrafficSocks
    /\ ListenRecvFrom(s, RecvResults(s), MaxFrames)

\* The listener of a socket receives whatever the server sends.
ListenRecvAny(s) ==
    /\ s \in Socks
    /\ ListenRecvFrom(s, AnyResults(s), MaxDecoded)

(* One select of the range loop, for subscriber cur[s].snap[cur[s].i]. A   *)
(* slot that holds no channel makes the send fault, which ends the         *)
(* process.                                                                *)
ListenSend(s) ==
    /\ Running
    /\ lpc[s] = "send"
    /\ LET c == cur[s]
           q == c.snap[c.i]
       IN  IF q = Wild
           THEN /\ exited' = "fault: send on a wild channel"
                /\ UNCHANGED <<lpc, cur, attempts, received, ready>>
           ELSE LET taken == SendTaken(q)
                    nxt == AfterSelect(s, taken)
                IN  /\ SelectProceeds(q)
                    /\ attempts' = attempts \cup
                         {[sock |-> s, n |-> c.n, ch |-> q, cap |-> ready[q]]}
                    /\ IF taken
                       THEN /\ received' = [received EXCEPT ![q] =
                                 Append(@, [sock |-> s, n |-> c.n,
                                            event |-> c.event])]
                            /\ ready' = [ready EXCEPT ![q] = FALSE]
                       ELSE UNCHANGED <<received, ready>>
                    /\ IF nxt > Len(c.snap)
                       THEN /\ lpc' = [lpc EXCEPT ![s] = "top"]
                            /\ cur' = [cur EXCEPT ![s] = Idle]
                       ELSE /\ cur' = [cur EXCEPT ![s].i = nxt]
                            /\ UNCHANGED lpc
                    /\ UNCHANGED exited
    /\ UNCHANGED <<payloads, adds, startVars, rx, subVars, tpc>>

\* A consumer starts a receive on its channel and waits.
ConsumerWait(q) ==
    /\ Running
    /\ q <= nextChan
    /\ ~ready[q]
    /\ ready' = [ready EXCEPT ![q] = TRUE]
    /\ UNCHANGED <<payloads, adds, startVars, lpc, cur, rx, attempts,
                   received, subVars, exited, tpc>>

\* The external owner of a socket clears its open flag.
Close(s) ==
    /\ Running
    /\ s \in TrafficSocks
    /\ open[s]
    /\ open' = [open EXCEPT ![s] = FALSE]
    /\ UNCHANGED <<payloads, adds, conn, subName, eventSockets, startPc, ev,
                   replies, listenVars, subVars, exited, tpc>>

\* ------------------------------------------- calls at memory-access level

(* The same calls as sequences of the loads and stores of the shared       *)
(* slices they perform, for goroutines that call them concurrently.        *)

\* Subscribe up to the load of socket.subscribers and the append.
TSubscribe(t, id) ==
    /\ Running
    /\ tpc[t].pc = "idle"
    /\ IF InvalidEventType(id)
       THEN /\ ret' = [err |-> NoSuchEventType, subs |-> None]
            /\ UNCHANGED <<nextChan, exited, tpc>>
       ELSE IF id + 1 \notin DOMAIN eventSockets
       THEN /\ exited' = "panic: index out of range"
            /\ UNCHANGED <<nextChan, ret, tpc>>
       ELSE LET s == eventSockets[id + 1]
                q == nextChan + 1
            IN  /\ nextChan < MaxSubs
                /\ nextChan' = q
                /\ tpc' = [tpc EXCEPT ![t] =
                             [pc |-> "sub store", sock |-> s, ch |-> q,
                              val |-> AppendSubscriber(subscribers[s], q),
                              name |-> ""]]
                /\ UNCHANGED <<ret, exited>>
    /\ UNCHANGED <<payloads, adds, startVars, listenVars, subscribers,
                   returned, chanInfo>>

\* The store of the appended slice, and the return.
TSubStore(t) ==
    /\ Running
    /\ tpc[t].pc = "sub store"
    /\ subscribers' = [subscribers EXCEPT ![tpc[t].sock] = tpc[t].val]
    /\ ret' = [err |-> Nil, subs |-> tpc[t].ch]
    /\ returned' = returned \cup {<<tpc[t].ch, tpc[t].sock>>}
    /\ chanInfo' = [chanInfo EXCEPT ![tpc[t].ch] =
                      [sock |-> tpc[t].sock, at |-> Len(rx[tpc[t].sock])]]
    /\ tpc' = [tpc EXCEPT ![t] = IdleThread]
    /\ UNCHANGED <<payloads, adds, startVars, listenVars, nextChan, exited>>

\* The AddEventType calls begun, finished or not.
AddsBegun == Len(adds) + Cardinality({t \in Threads : tpc[t].name # ""})

\* AddEventType up to the load of payloads and the append.
TAddEventType(t) ==
    /\ Running
    /\ tpc[t].pc = "idle"
    /\ AddsBegun < MaxAdds
    /\ LET name == ExtNames[AddsBegun + 1]
       IN  tpc' = [tpc EXCEPT ![t] =
                     [pc |-> "add store", sock |-> 0, ch |-> None,
                      val |-> AppendPayload(payloads, name), name |-> name]]
    /\ UNCHANGED <<payloads, adds, startVars, listenVars, subVars, exited>>

\* The store of the appended slice into payloads.
TAddStore(t) ==
    /\ Running
    /\ tpc[t].pc = "add store"
    /\ payloads' = tpc[t].val
    /\ tpc' = [tpc EXCEPT ![t].pc = "add return"]
    /\ UNCHANGED <<adds, startVars, listenVars, subVars, exited>>

(* return EventType(len(payloads) - 1): the length is that of the slice    *)
(* just stored, or of payloads loaded again.                               *)
TAddReturn(t) ==
    /\ Running
    /\ tpc[t].pc = "add return"
    /\ \E p \in {tpc[t].val, payloads} :
         adds' = Append(adds, [name |-> tpc[t].name,
                               id |-> NewEventType(p),
                               before |-> Len(tpc[t].val) - 1])
    /\ tpc' = [tpc EXCEPT ![t] = IdleThread]
    /\ UNCHANGED <<payloads, startVars, listenVars, subVars, exited>>


\* ------------------------------------------------------- specifications

(* Spec: the application's calls and the startup sequence, from process    *)
(* start, with the transport silent.                                       *)
Next ==
    \/ AddEventType(ExtNames[Len(adds) + 1])
    \/ StartCheck
    \/ StartGetSocket
    \/ StartSubscribe
    \/ StartLaunch
    \/ StartStore
    \/ \E id \in SubIds : Subscribe(id)

Spec == Init /\ [][Next]_vars

\* The state StartEventListener leaves behind when every handshake succeeds.
Started ==
    /\ payloads = BuiltinPayloads
    /\ eventSockets = [i \in 1 .. eventmax |-> i - 1]
    /\ conn = [s \in Socks |-> "subscribed"]
    /\ subName = [s \in Socks |-> BuiltinPayloads[s + 1]]
    /\ open = [s \in Socks |-> TRUE]
    /\ subscribers = [s \in Socks |-> <<>>]
    /\ startPc = "done"
    /\ ev = eventmax
    /\ lpc = [s \in Socks |-> "top"]
    /\ cur = [s \in Socks |-> Idle]
    /\ ready = [q \in Chans |-> FALSE]
    /\ nextChan = 0
    /\ exited = ""
    /\ tpc = [t \in Threads |-> IdleThread]
    /\ adds = <<>>
    /\ replies = [s \in Socks |-> "success"]
    /\ ret = [err |-> Nil, subs |-> None]
    /\ returned = {}
    /\ chanInfo = [q \in Chans |-> [sock |-> 0, at |-> 0]]
    /\ rx = [s \in Socks |-> <<>>]
    /\ attempts = {}
    /\ received = [q \in Chans |-> <<>>]

(* SpecListen: the steady state after startup. The transport delivers on   *)
(* the TrafficSocks, the application subscribes to the ListenIds and the   *)
(* consumers read.                                                         *)
NextListen ==
    \/ \E id \in ListenIds : Subscribe(id)
    \/ \E s \in TrafficSocks : ListenTop(s)
    \/ \E s \in TrafficSocks : ListenRecv(s)
    \/ \E s \in TrafficSocks : ListenSend(s)
    \/ \E q \in Chans : ConsumerWait(q)

SpecListen == Started /\ [][NextListen]_vars

\* The state after startup and one Subscribe(I3WindowEvent) call.
Attached ==
    /\ payloads = BuiltinPayloads
    /\ eventSockets = [i \in 1 .. eventmax |-> i - 1]
    /\ conn = [s \in Socks |-> "subscribed"]
    /\ subName = [s \in Socks |-> BuiltinPayloads[s + 1]]
    /\ open = [s \in Socks |-> TRUE]
    /\ subscribers = [s \in Socks |-> IF s = I3WindowEvent THEN <<1>> ELSE <<>>]
    /\ startPc = "done"
    /\ ev = eventmax
    /\ lpc = [s \in Socks |-> "top"]
    /\ cur = [s \in Socks |-> Idle]
    /\ ready = [q \in Chans |-> FALSE]
    /\ nextChan = 1
    /\ exited = ""
    /\ tpc = [t \in Threads |-> IdleThread]
    /\ adds = <<>>
    /\ replies = [s \in Socks |-> "success"]
    /\ ret = [err |-> Nil, subs |-> 1]
    /\ returned = {<<1, I3WindowEvent>>}
    /\ chanInfo = [q \in Chans |->
                     IF q = 1 THEN [sock |-> I3WindowEvent, at |-> 0]
                     ELSE [sock |-> 0, at |-> 0]]
    /\ rx = [s \in Socks |-> <<>>]
    /\ attempts = {}
    /\ received = [q \in Chans |-> <<>>]

(* SpecDecode: one subscriber is attached to the window socket, and the    *)
(* listener of that socket receives frames of any type with any payload.   *)
NextDecode ==
    \/ \E s \in TrafficSocks : ListenTop(s)
    \/ \E s \in TrafficSocks : ListenRecvAny(s)
    \/ \E s \in TrafficSocks : ListenSend(s)
    \/ ConsumerWait(1)

SpecDecode == Attached /\ [][NextDecode]_vars

(* SpecClose: one subscriber is attached to the window socket, the         *)
(* transport delivers on it, and its owner may clear its open flag at any  *)
(* time. A listener that can take a step of its own takes it eventually    *)
(* (the scheduler runs every runnable goroutine); nothing makes the        *)
(* transport deliver, the owner close or the consumer read.                *)
NextClose ==
    \/ \E s \in TrafficSocks : ListenTop(s)
    \/ \E s \in TrafficSocks : ListenRecv(s)
    \/ \E s \in TrafficSocks : ListenSend(s)
    \/ \E s \in TrafficSocks : Close(s)
    \/ ConsumerWait(1)

SpecClose ==
    /\ Attached
    /\ [][NextClose]_vars
    /\ \A s \in TrafficSocks : WF_vars(ListenTop(s)) /\ WF_vars(ListenSend(s))

(* SpecRace: the steady state with the application's calls made by         *)
(* concurrent goroutines, interleaved at the level of their memory         *)
(* accesses.                                                               *)
NextRace ==
    \/ \E t \in Threads, id \in ListenIds : TSubscribe(t, id)
    \/ \E t \in Threads : TSubStore(t)
    \/ \E t \in Threads : TAddEventType(t)
    \/ \E t \in Threads : TAddStore(t)
    \/ \E t \in Threads : TAddReturn(t)
    \/ \E s \in TrafficSocks : ListenTop(s)
    \/ \E s \in TrafficSocks : ListenRecv(s)
    \/ \E s \in TrafficSocks : ListenSend(s)

SpecRace == Started /\ [][NextRace]_vars

\* ------------------------------------------------- registry and startup

\* The ids the registry holds names for.
RegisteredIds == 0 .. (Len(payloads) - 1)

(* C1: a Subscribe call whose id is negative or not below the number of    *)
(* registered categories returns the "no such event type" error and no     *)
(* channel, changes no socket's subscribers and does not end the process,  *)
(* whatever AddEventType calls came before.                                *)
C1_InvalidIdRejected ==
    [][\A id \in SubIds :
         (id \notin RegisteredIds /\ Subscribe(id))
           => /\ ret' = [err |-> NoSuchEventType, subs |-> None]
              /\ subscribers' = subscribers
              /\ nextChan' = nextChan
              /\ exited' = exited]_vars

\* C1 witness: after an AddEventType call and a successful Subscribe, a
\* Subscribe call was refused.
C1_Witness ==
    /\ ret = [err |-> NoSuchEventType, subs |-> None]
    /\ Len(adds) > 0
    /\ nextChan > 0
    /\ exited = ""

(* C2, as claimed: after startup a Subscribe call is refused as invalid    *)
(* exactly when its id lies outside the ids the registry holds now.        *)
C2_RejectedIffOutsideRegistry ==
    [][\A id \in SubIds :
         (startPc = "done" /\ Subscribe(id))
           => (ret'.err = NoSuchEventType <=> id \notin RegisteredIds)]_vars

(* C9: the registry is append only. An AddEventType call returns the size  *)
(* the registry had before it and stores its name at that id; no step      *)
(* changes or removes an entry; every id returned still names what its     *)
(* call registered, and no id was returned twice.                          *)
C9_RegistryAppendOnly ==
    /\ [](\A i \in DOMAIN adds :
            /\ adds[i].id \in RegisteredIds
            /\ payloads[adds[i].id + 1] = adds[i].name
            /\ \A j \in DOMAIN adds : i # j => adds[i].id # adds[j].id)
    /\ [][/\ Len(payloads') >= Len(payloads)
          /\ SubSeq(payloads', 1, Len(payloads)) = payloads
          /\ adds' # adds =>
               LET a == adds'[Len(adds')]
               IN  /\ a.id = Len(payloads)
                   /\ Len(payloads') = Len(payloads) + 1
                   /\ payloads'[a.id + 1] = a.name]_vars

\* C9 witness: two names were registered, after the built-in ones.
C9_Witness ==
    /\ Len(adds) = 2
    /\ payloads = BuiltinPayloads \o <<ExtNames[1], ExtNames[2]>>

(* C10: when StartEventListener finds the registry size different from     *)
(* eventmax it ends the process, and in that state no socket has been      *)
(* connected or handshaked, none is stored and no listener was launched.   *)
C10_MismatchAbortsFirst ==
    /\ [][(StartCheck /\ Len(payloads) # eventmax)
            => exited' = "fatal: payloads"]_vars
    /\ [](exited = "fatal: payloads" =>
            /\ \A s \in Socks : conn[s] = "none" /\ lpc[s] = "idle"
            /\ eventSockets = <<>>)

\* C10 witness: startup ended the process after an AddEventType call.
C10_Witness == exited = "fatal: payloads" /\ Len(adds) > 0

\* ------------------------------------------------------------- fan-out

\* What recv returned is an event message that addDetails decodes.
Decodable(r) ==
    /\ ~r.err
    /\ r.msg.IsEvent
    /\ UnmarshalErr(r.msg.Payload, DetailOf(r.msg.Type).fields) = Nil

EventOf(r) == addDetails(r.msg.Type, r.msg.Payload).event

\* The listener of s has received frame n and is past channel q in the
\* range loop for it.
Past(s, n, q) ==
    /\ n \in DOMAIN rx[s]
    /\ ~(/\ lpc[s] = "send"
         /\ cur[s].n = n
         /\ \E k \in cur[s].i .. Len(cur[s].snap) : cur[s].snap[k] = q)

AttemptsOf(s, n, q) == {a \in attempts : a.sock = s /\ a.n = n /\ a.ch = q}

\* The entries of received[q] for frame n of socket s.
Got(q, s, n) ==
    {i \in DOMAIN received[q] : received[q][i].sock = s /\ received[q][i].n = n}

(* C3: what a subscriber received is a subsequence of the event frames its *)
(* socket received after it was attached, in receive order and without     *)
(* duplicates; of the frames that were broadcast, the ones it misses are   *)
(* exactly those for which no receiver was waiting on its channel when the *)
(* listener tried the send. (A frame that does not decode ends the         *)
(* process before any send.)                                               *)
C3_SubsequenceInOrder ==
    \A q \in 1 .. nextChan :
      LET s == chanInfo[q].sock
          got == received[q]
      IN  /\ \A i \in DOMAIN got :
                /\ got[i].sock = s
                /\ got[i].n \in (chanInfo[q].at + 1) .. Len(rx[s])
                /\ Decodable(rx[s][got[i].n])
                /\ got[i].event = EventOf(rx[s][got[i].n])
          /\ \A i, j \in DOMAIN got : i < j => got[i].n < got[j].n
          /\ \A n \in (chanInfo[q].at + 1) .. Len(rx[s]) :
                (Decodable(rx[s][n]) /\ Past(s, n, q))
                  => /\ Cardinality(AttemptsOf(s, n, q)) = 1
                     /\ \A a \in AttemptsOf(s, n, q) :
                          a.cap <=> Got(q, s, n) # {}

\* C3 witness: a subscriber attached before two event frames took the
\* second and missed the first.
C3_Witness ==
    \E q \in 1 .. nextChan :
      LET s == chanInfo[q].sock
      IN  /\ chanInfo[q].at = 0
          /\ Len(rx[s]) = 2
          /\ Decodable(rx[s][1]) /\ Decodable(rx[s][2])
          /\ Past(s, 2, q)
          /\ Got(q, s, 1) = {}
          /\ Got(q, s, 2) # {}

(* C4: the broadcast is a fan-out. Once the range loop for a frame is past *)
(* them, every subscriber attached before the frame has been tried, and    *)
(* every one on whose channel a receiver was waiting at its try has        *)
(* received the decoded event of that frame: two such subscribers hold     *)
(* the same Event.                                                         *)
C4_FanOut ==
    /\ \A q \in 1 .. nextChan :
         \A n \in (chanInfo[q].at + 1) .. Len(rx[chanInfo[q].sock]) :
           (Decodable(rx[chanInfo[q].sock][n]) /\ Past(chanInfo[q].sock, n, q))
             => AttemptsOf(chanInfo[q].sock, n, q) # {}
    /\ \A a \in attempts :
         a.cap => \E i \in Got(a.ch, a.sock, a.n) :
                    received[a.ch][i].event = EventOf(rx[a.sock][a.n])
    /\ \A q1, q2 \in 1 .. nextChan :
         \A i \in DOMAIN received[q1], j \in DOMAIN received[q2] :
           (received[q1][i].sock = received[q2][j].sock
              /\ received[q1][i].n = received[q2][j].n)
             => received[q1][i].event = received[q2][j].event

\* C4 witness: two subscribers of one socket received the same frame.
C4_Witness ==
    \E s \in Socks : \E n \in DOMAIN rx[s] : \E q1, q2 \in 1 .. nextChan :
      /\ q1 # q2
      /\ Got(q1, s, n) # {}
      /\ Got(q2, s, n) # {}

\* The channel the listener of s is about to try.
CurrentChan(s) == cur[s].snap[cur[s].i]

(* C5: the broadcast never blocks. A listener inside the range loop can    *)
(* always take its next step, whether or not a receiver waits on the       *)
(* channel it tries. When none waits, nobody receives anything in that     *)
(* step. Every step of the loop moves to the next subscriber of the same   *)
(* event or, after the last one, to the loop head: the listener is back    *)
(* there after as many of its own steps as the ranged slice has elements,  *)
(* whatever the consumers do.                                              *)
C5_BroadcastNeverBlocks ==
    /\ [](\A s \in TrafficSocks :
            (Running /\ lpc[s] = "send") => ENABLED ListenSend(s))
    /\ [][\A s \in TrafficSocks :
            ListenSend(s)
              => /\ ~ready[CurrentChan(s)] => received' = received
                 /\ exited' = exited
                 /\ IF cur[s].i < Len(cur[s].snap)
                    THEN /\ lpc'[s] = "send"
                         /\ cur'[s] = [cur[s] EXCEPT !.i = cur[s].i + 1]
                    ELSE lpc'[s] = "top"]_vars

\* C5 witness: a broadcast ended although a subscriber took nothing, and a
\* later frame reached another subscriber.
C5_Witness ==
    \E s \in TrafficSocks : \E q1, q2 \in 1 .. nextChan :
      /\ lpc[s] = "top"
      /\ received[q1] = <<>>
      /\ \E a \in attempts : a.ch = q1 /\ a.sock = s /\ a.n = 1 /\ ~a.cap
      /\ Got(q2, s, 2) # {}

(* C6: a message that is not an event is never delivered, and receiving    *)
(* one changes nothing but the listener's return to the loop head: no      *)
(* subscriber, channel, delivery or broadcast in progress is touched.      *)
C6_NonEventsDropped ==
    /\ [](\A q \in Chans : \A i \in DOMAIN received[q] :
            LET e == received[q][i]
            IN  ~rx[e.sock][e.n].err /\ rx[e.sock][e.n].msg.IsEvent)
    /\ [][\A s \in Socks :
            ( /\ Len(rx'[s]) = Len(rx[s]) + 1
              /\ ~rx'[s][Len(rx'[s])].err
              /\ ~rx'[s][Len(rx'[s])].msg.IsEvent )
              => /\ lpc' = [lpc EXCEPT ![s] = "top"]
                 /\ UNCHANGED <<cur, attempts, received, ready, subscribers,
                                open, exited>>]_vars

\* C6 witness: a reply arrived, and the event after it reached a subscriber
\* attached before both.
C6_Witness ==
    \E s \in Socks : \E q \in 1 .. nextChan :
      /\ Len(rx[s]) = 2
      /\ chanInfo[q].at = 0
      /\ ~rx[s][1].err /\ ~rx[s][1].msg.IsEvent
      /\ Got(q, s, 2) # {}

\* ---------------------------------------------------- concurrent calls

(* C7, as claimed: whatever the interleaving of concurrent Subscribe calls *)
(* and the listener, every channel a Subscribe call has returned is in     *)
(* the subscribers of its socket, and stays there.                         *)
C7_ReturnedStaySubscribed ==
    \A p \in returned : p[1] \in Range(subscribers[p[2]])

(* C8, as claimed: whatever the interleaving of concurrent AddEventType    *)
(* calls, the ids they returned are pairwise distinct and the registry     *)
(* holds, at each returned id, the name that call registered.              *)
C8_ConcurrentAddsDistinct ==
    \A i \in DOMAIN adds :
      /\ adds[i].id \in RegisteredIds
      /\ payloads[adds[i].id + 1] = adds[i].name
      /\ \A j \in DOMAIN adds : i # j => adds[i].id # adds[j].id

\* -------------------------------------------------------- startup order

\* The replies to a subscribe request that make subscribe return an error.
FailedReplies == HandshakeReplies \ {"success"}

(* C11, as claimed: when a subscribe handshake is rejected or fails, the   *)
(* process ends in a state where no listener has been launched for any     *)
(* category.                                                               *)
C11_NoListenerAtHandshakeAbort ==
    exited = "fatal: subscribe" => \A s \in Socks : lpc[s] = "idle"

(* C11, amended: a handshake that is rejected or fails ends the process,   *)
(* and in that state no listener has been launched and no socket stored    *)
(* for the category whose handshake failed nor for any later one; the      *)
(* listeners of the earlier categories, whose handshakes succeeded, have   *)
(* been launched.                                                          *)
C11_FailedHandshakeAborts ==
    /\ [][\A s \in Socks :
            (replies'[s] # replies[s] /\ replies'[s] \in FailedReplies)
              => exited' = "fatal: subscribe"]_vars
    /\ [](exited = "fatal: subscribe" =>
            /\ replies[ev] \in FailedReplies
            /\ \A s \in Socks :
                 /\ s >= ev => (lpc[s] = "idle" /\ s \notin Range(eventSockets))
                 /\ s < ev => (lpc[s] # "idle" /\ replies[s] = "success"))

\* C11 witness: the handshake of the third category was rejected after two
\* categories were set up.
C11_Witness ==
    /\ exited = "fatal: subscribe"
    /\ ev = I3ModeEvent
    /\ replies[ev] = "rejected"
    /\ Len(eventSockets) = 2

\* -------------------------------------------------------------- decoding

\* The event types the switch of addDetails has a case for.
SpecificTypes ==
    {I3WorkspaceEvent, I3ModeEvent, I3WindowEvent, I3BindingEvent}

\* The step receives a result on socket s.
Received(s) == Len(rx'[s]) = Len(rx[s]) + 1

\* The result the step receives on socket s.
Latest(s) == rx'[s][Len(rx'[s])]

\* The step receives an event frame of a type without a case of its own.
ReceivedGeneric(s) ==
    /\ Received(s)
    /\ ~Latest(s).err
    /\ Latest(s).msg.IsEvent
    /\ Latest(s).msg.Type \notin SpecificTypes

(* C12, as claimed: the listener never ends the process over an event      *)
(* frame of a type without a case of its own, whatever the payload.        *)
C12_GenericNeverFatal ==
    [][\A s \in Socks : ReceivedGeneric(s) => exited' = exited]_vars

\* The payload is a JSON object whose change, if it has one, is a string
\* or null.
ChangeDecodes(raw) ==
    /\ raw.syntax
    /\ "change" \in DOMAIN raw.obj
         => raw.obj["change"].kind \in {"string", "null"}

\* The change string such a payload carries.
ChangeIn(raw) ==
    IF "change" \in DOMAIN raw.obj /\ raw.obj["change"].kind = "string"
    THEN raw.obj["change"].val
    ELSE ""

(* C12, amended: an event frame of a type without a case of its own whose  *)
(* payload is a JSON object with a change that is absent, null or a string *)
(* never ends the process, whatever else the payload holds: it yields the  *)
(* Event of the declared type with the generic detail, which carries the   *)
(* change string and nothing else, and that Event is broadcast to the      *)
(* subscribers. Any other payload ends the process.                        *)
C12_GenericDecodes ==
    /\ [][\A s \in Socks :
            ReceivedGeneric(s) =>
              LET m == Latest(s).msg
                  chg == ChangeIn(m.Payload)
              IN  IF ChangeDecodes(m.Payload)
                  THEN /\ exited' = exited
                       /\ subscribers[s] # <<>> =>
                            /\ lpc'[s] = "send"
                            /\ cur'[s].snap = subscribers[s]
                            /\ cur'[s].event =
                                 [Type |-> m.Type,
                                  Details |-> [variant |-> "BaseEvent",
                                               d |-> [change |-> chg]],
                                  Change |-> chg]
                  ELSE exited' = "fatal: decode"]_vars
    /\ [](\A q \in Chans : \A i \in DOMAIN received[q] :
            LET e == received[q][i]
            IN  rx[e.sock][e.n].msg.Type \notin SpecificTypes
                  => /\ e.event.Details.variant = "BaseEvent"
                     /\ DOMAIN e.event.Details.d = {"change"}
                     /\ e.event.Details.d["change"]
                          = ChangeIn(rx[e.sock][e.n].msg.Payload))

\* C12 witness: a subscriber received the event of a bar configuration
\* frame whose payload holds a container that is a number.
C12_Witness ==
    \E q \in Chans : \E i \in DOMAIN received[q] :
      LET e == received[q][i]
      IN  /\ e.event.Type = I3BarConfigUpdateEvent
          /\ e.event.Change = "focus"
          /\ rx[e.sock][e.n].msg.Payload =
               Json([change |-> JStr("focus"), container |-> JNum("7")])

\* The category whose socket s is: the index StartEventListener stored it at.
CategoryOf(s) == CHOOSE c \in Socks : eventSockets[c + 1] = s

AttachedChans == UNION {Range(subscribers[s]) : s \in Socks}

(* C14: a Subscribe call after startup that returns a channel returns one  *)
(* that was attached nowhere and returned never before, appends it to the  *)
(* subscribers of the socket whose handshake carried the name of the       *)
(* category, and changes nothing else: no socket is created, connected or  *)
(* closed, the subscribers of the other sockets stay as they are, those    *)
(* of this socket keep their positions, and no listener, consumer or       *)
(* registry entry is touched.                                              *)
C14_SubscribeOnlyAppends ==
    [][\A id \in SubIds :
         (startPc = "done" /\ Subscribe(id) /\ ret'.err = Nil)
           => LET q == ret'.subs
                  s == eventSockets[id + 1]
              IN  /\ q # None
                  /\ q \notin AttachedChans
                  /\ q \notin {p[1] : p \in returned}
                  /\ subName[s] = payloads[id + 1]
                  /\ subscribers'[s] = subscribers[s] \o <<q>>
                  /\ \A x \in Socks \ {s} : subscribers'[x] = subscribers[x]
                  /\ UNCHANGED <<eventSockets, conn, open, subName, payloads,
                                 lpc, cur, rx, received, ready, exited>>]_vars

\* C14 witness: after startup two channels are attached to one socket, in
\* the order the calls returned them.
C14_Witness ==
    /\ startPc = "done"
    /\ ret = [err |-> Nil, subs |-> 2]
    /\ \E s \in Socks : subscribers[s] = <<1, 2>>

\* ------------------------------------------------------ failures in listen

(* The payload has the shape of the struct of its type: it is JSON and     *)
(* every member the struct has a field for is null or of the field's kind. *)
Fits(type, raw) ==
    /\ raw.syntax
    /\ \A k \in DOMAIN raw.obj \cap DOMAIN DetailOf(type).fields :
         raw.obj[k].kind \in {"null", DetailOf(type).fields[k]}

\* The step receives an event frame whose payload does not fit its type.
ReceivedMisfit(s) ==
    /\ Received(s)
    /\ ~Latest(s).err
    /\ Latest(s).msg.IsEvent
    /\ ~Fits(Latest(s).msg.Type, Latest(s).msg.Payload)

(* C15: receiving an event frame whose payload does not decode for its     *)
(* type ends the process in that very step, before any select for the      *)
(* frame; no subscriber ever holds an event of such a frame, and once the  *)
(* process has ended no listener delivers, tries or receives anything.     *)
C15_DecodeFailureIsFatal ==
    /\ [][\A s \in Socks :
            ReceivedMisfit(s)
              => /\ exited' = "fatal: decode"
                 /\ UNCHANGED <<received, attempts, ready, cur, lpc>>]_vars
    /\ [][exited # "" => UNCHANGED <<received, attempts, rx, lpc, cur>>]_vars
    /\ [](\A q \in Chans : \A i \in DOMAIN received[q] :
            LET m == rx[received[q][i].sock][received[q][i].n].msg
            IN  Fits(m.Type, m.Payload))
    /\ [](\A a \in attempts :
            Fits(rx[a.sock][a.n].msg.Type, rx[a.sock][a.n].msg.Payload))

\* C15 witness: a window frame whose container is a number ended the
\* process while a consumer was waiting, and the consumer got nothing.
C15_Witness ==
    \E s \in Socks : \E q \in Range(subscribers[s]) :
      /\ exited = "fatal: decode"
      /\ rx[s] # <<>>
      /\ rx[s][Len(rx[s])].msg.Type = I3WindowEvent
      /\ rx[s][Len(rx[s])].msg.Payload.syntax
      /\ ready[q]
      /\ received[q] = <<>>

\* The step receives an error on socket s.
ReceivedError(s) == Received(s) /\ Latest(s).err

(* C16: a receive error is swallowed. The step that receives it takes the  *)
(* listener back to the loop head and changes nothing else: no subscriber  *)
(* set, channel, delivery or broadcast, and the process goes on. No        *)
(* subscriber ever holds an event for an error. An event frame received    *)
(* right after an error is broadcast like any other: once the range loop   *)
(* is past a subscriber attached before it, that subscriber was tried, and *)
(* it holds the decoded event of the frame exactly if a receiver was       *)
(* waiting, after everything it received before.                           *)
C16_RecvErrorSwallowed ==
    /\ [][\A s \in Socks :
            ReceivedError(s)
              => /\ lpc' = [lpc EXCEPT ![s] = "top"]
                 /\ UNCHANGED <<cur, attempts, received, ready, subscribers,
                                nextChan, open, exited>>]_vars
    /\ [](\A q \in Chans : \A i \in DOMAIN received[q] :
            ~rx[received[q][i].sock][received[q][i].n].err)
    /\ [](\A q \in 1 .. nextChan :
            LET s == chanInfo[q].sock
            IN  \A n \in (chanInfo[q].at + 1) .. Len(rx[s]) :
                  ( /\ n > 1
                    /\ rx[s][n - 1].err
                    /\ Decodable(rx[s][n])
                    /\ Past(s, n, q) )
                    => /\ AttemptsOf(s, n, q) # {}
                       /\ \A a \in AttemptsOf(s, n, q) :
                            a.cap => \E i \in Got(q, s, n) :
                                       /\ received[q][i].event = EventOf(rx[s][n])
                                       /\ \A j \in 1 .. (i - 1) :
                                            received[q][j].n < n)

\* C16 witness: a socket received an error and then an event frame, and a
\* subscriber attached before both holds the event.
C16_Witness ==
    \E s \in Socks : \E q \in 1 .. nextChan :
      /\ chanInfo[q].sock = s
      /\ chanInfo[q].at = 0
      /\ Len(rx[s]) = 2
      /\ rx[s][1].err
      /\ Got(q, s, 2) # {}

\* The step launches the listener of socket s.
Launched(s) == lpc[s] = "idle" /\ lpc'[s] # "idle"

(* C17: startup is ordered for each category. A subscribe request is sent  *)
(* only on a connection that was opened, and carries the name of the       *)
(* category; the listener of a category is launched only after that        *)
(* request was answered with success; and in the state in which it is      *)
(* launched the socket is open and its subscribers are the empty slice,    *)
(* whatever Subscribe and AddEventType calls were made meanwhile.          *)
C17_StartupOrdered ==
    /\ [][\A s \in Socks :
            replies'[s] # replies[s]
              => /\ conn[s] = "connected"
                 /\ open[s]
                 /\ subName'[s] = BuiltinPayloads[s + 1]]_vars
    /\ [][\A s \in Socks :
            Launched(s)
              => /\ conn[s] = "subscribed"
                 /\ replies[s] = "success"
                 /\ open[s]
                 /\ subscribers[s] = <<>>
                 /\ s \notin Range(eventSockets)
                 /\ \A x \in Socks : x < s <=> lpc[x] # "idle"]_vars
    /\ [](\A s \in Socks :
            /\ lpc[s] # "idle" => replies[s] = "success"
            /\ replies[s] # "" => conn[s] # "none")

\* C17 witness: the listener of the last category has been launched, after
\* a Subscribe call attached a channel to an earlier socket.
C17_Witness ==
    /\ lpc[I3BindingEvent] = "top"
    /\ startPc = "store"
    /\ subscribers[I3WorkspaceEvent] # <<>>
    /\ subscribers[I3BindingEvent] = <<>>

\* ---------------------------------------------------------- termination

\* The step takes the listener of socket s out of its loop.
LeavesLoop(s) == lpc[s] # "exit" /\ lpc'[s] = "exit"

(* C18: a listener leaves its loop only at the loop head and only when the *)
(* open flag of its socket has been cleared; while the flag is set no      *)
(* frame, reply or receive error makes it leave. Once the flag is cleared  *)
(* it leaves eventually: a listener that is at the loop head or inside a   *)
(* broadcast, which is where it is when its pending receive has returned,  *)
(* gets to the loop head and out, unless the process ends first.           *)
C18_ExitsWhenClosed ==
    /\ [][\A s \in Socks :
            LeavesLoop(s) => (~open[s] /\ lpc[s] = "top")]_vars
    /\ [](\A s \in Socks : lpc[s] = "exit" => ~open[s])
    /\ [][\A s \in Socks :
            (open[s] /\ lpc[s] = "top" /\ lpc'[s] # lpc[s])
              => lpc'[s] = "recv"]_vars
    /\ \A s \in TrafficSocks :
         (~open[s] /\ lpc[s] \in {"top", "send"})
            ~> (lpc[s] = "exit" \/ ~Running)

\* C18 witness: a listener left its loop after it had received two results
\* and delivered an event.
C18_Witness ==
    \E s \in TrafficSocks :
      /\ lpc[s] = "exit"
      /\ Len(rx[s]) = 2
      /\ \E q \in Range(subscribers[s]) : received[q] # <<>>

\* ------------------------------------------------------ well-formed events

(* C19: every event a subscriber holds is well formed. Its type is the     *)
(* type its frame declared; its detail is the workspace, mode, window or   *)
(* binding struct for a frame of that type and the generic struct for any  *)
(* other, with the fields of that struct and no others; the change of the  *)
(* detail is the change string of the payload (empty when the payload has  *)
(* none), and the deprecated Change field of the event equals it.          *)
C19_EventsWellFormed ==
    \A q \in Chans : \A i \in DOMAIN received[q] :
      LET e == received[q][i].event
          m == rx[received[q][i].sock][received[q][i].n].msg
      IN  /\ m.IsEvent
          /\ e.Type = m.Type
          /\ e.Details.variant =
                CASE m.Type = I3WorkspaceEvent -> "WorkspaceEvent"
                  [] m.Type = I3ModeEvent -> "ModeEvent"
                  [] m.Type = I3WindowEvent -> "WindowEvent"
                  [] m.Type = I3BindingEvent -> "BindingEvent"
                  [] OTHER -> "BaseEvent"
          /\ DOMAIN e.Details.d =
                CASE m.Type = I3WorkspaceEvent -> {"change", "current", "old"}
                  [] m.Type = I3ModeEvent -> {"change", "pangomarkup"}
                  [] m.Type = I3WindowEvent -> {"change", "container"}
                  [] m.Type = I3BindingEvent -> {"change", "binding"}
                  [] OTHER -> {"change"}
          /\ e.Details.d["change"] = ChangeIn(m.Payload)
          /\ e.Change = e.Details.d["change"]

\* C19 witness: a subscriber holds a binding event with the binding and
\* the change of its payload.
C19_Witness ==
    \E q \in Chans : \E i \in DOMAIN received[q] :
      LET e == received[q][i].event
      IN  /\ e.Type = I3BindingEvent
          /\ e.Details.variant = "BindingEvent"
          /\ e.Details.d["binding"] = "binding"
          /\ e.Change = "run"

\* ------------------------------------------------- Subscribe at any time

(* C20, as claimed: in every reachable state, before, during and after     *)
(* StartEventListener, a Subscribe call with a built-in event type does    *)
(* not end the process: it returns an error, or it returns a channel that  *)
(* is now among the subscribers of the stored socket of that type.         *)
C20_SubscribeNeverCrashes ==
    [][\A id \in Socks :
         Subscribe(id)
           => /\ exited' = exited
              /\ \/ ret'.err # Nil
                 \/ /\ id + 1 \in DOMAIN eventSockets
                    /\ ret'.subs \in Range(subscribers'[eventSockets[id + 1]])]_vars

====
